---- MODULE Spec2Model ----
(***************************************************************************)
(* A model of the lock-free ring buffers (atomic_ring_buffer_spsc.rs,      *)
(* atomic_ring_buffer_mpmc.rs) and of the reference-counted pointer        *)
(* (primitives.rs).  Every atomic access of the code is one step of the    *)
(* thread that performs it; accesses to thread-private data are folded     *)
(* into the neighbouring atomic step.  usize is UsizeBits wide; the guards *)
(* of the drivers keep every counter below 2^(UsizeBits - 1), as 2^63 is   *)
(* out of reach of a run of the program.                                   *)
(***************************************************************************)
EXTENDS Integers, Sequences, FiniteSets, TLC

\* ------------------------------------------------------------------ bounds
\* log2 of the largest capacity N a buffer is built with (N = 1, 2, .. 2^MaxLogCap)
MaxLogCap == 1
\* values each concurrent producer pushes (OPS_PER_THREAD of the tests)
MaxPush == 2
\* highest head position a single-threaded run reaches
MaxPos == 5
\* width of usize in the model; every counter stays below 2^(UsizeBits - 1)
UsizeBits == 5
\* payload values offered by the single-threaded driver: 1..MaxVal
MaxVal == 2
\* clones made of one Arc
MaxClones == 4
\* snooze calls made on one Backoff without a reset between them
MaxSnooze == 9

RECURSIVE Pow2(_)
Pow2(k) == IF k = 0 THEN 1 ELSE 2 * Pow2(k - 1)

\* usize::is_power_of_two together with N != 0
IsPowerOfTwo(n) == \E k \in 0..n : Pow2(k) = n

Capacities == {n \in 1..Pow2(MaxLogCap) : IsPowerOfTwo(n)}

Values == 1..MaxVal

Threads == {"p1", "p2", "c1", "c2"}

\* the thread of a single-threaded run
Main == "p1"

Producers(k) == IF k = "spsc" THEN {"p1"} ELSE {"p1", "p2"}

Consumers(k) == IF k = "spsc" THEN {"c1"} ELSE {"c1", "c2"}

ProducerIndex(t) == IF t = "p1" THEN 0 ELSE 1

\* ------------------------------------------------------------------- state
VARIABLES
    kind,          \* which buffer type was constructed: "spsc", "mpmc", or a locked
                   \* one, "mutex" (mutex_ring_buffer.rs) or "lib" (lib.rs)
    N,             \* the const generic capacity
    needs_drop,    \* std::mem::needs_drop::<T>() of the payload type
    head,          \* head: Padded<AtomicUsize>
    tail,          \* tail: Padded<AtomicUsize>
    cached_head,   \* SPSC consumer's private copy of head
    cached_tail,   \* SPSC producer's private copy of tail
    buffer,        \* slot storage: the bits last written (0: never written)
    sequence,      \* MPMC Slot.sequence
    pc,            \* per thread: position inside push/pop, "idle" between calls
    loc,           \* per thread: the call's locals (head, tail, seq, value)
    driver,        \* who calls: "single": one thread makes every call; "threads": the
                   \* tests' threads; "new": construction is under way ("failed": it
                   \* did not compile); "locked": threads on a locked buffer;
                   \* "leak": one thread on an Arc; "backoff": a retry loop's Backoff
    dropped,       \* the buffer's Drop has run
    \* ---- history (ghost) variables
    pushed,        \* values of the pushes that returned Ok, in return order (for
                   \* MPMC under threads, where no order is promised: as a multiset)
    popped,        \* values returned by pops, likewise
    absq,          \* single-threaded run: the abstract bounded FIFO given the same calls
    last,          \* the call that returned in the latest step, if one did
    before,        \* single-threaded run: the buffer's fields when the call began
    fate,          \* per written element: "held", "popped", "dropped", "lost", "double"
    slotElem,      \* per slot: the element (index into fate) last written, 0 if none
    ub,            \* undefined behaviour met so far (uninitialised reads, ...)
    dropLog,       \* positions whose slot Drop ran drop_in_place on, in order
    written,       \* MPMC: <<position, value>> of each write not yet handed out by a pop
    wasFull,       \* MPMC, per thread: head - tail = N held at some moment of its push
    \* ---- primitives::Arc
    ref_count,     \* ArcData.ref_count
    allocated,     \* the ArcData box exists
    holds,         \* per thread: the handles it owns
    apc,           \* per thread: "idle", or "free" inside the drop that saw 1
    aborted,       \* std::process::abort() was called
    \* ---- history (ghost) variables of the Arc
    freed,         \* how often the box was freed and the value destroyed
    nClones,       \* clones that returned a handle
    nDrops,        \* drops that returned
    arcUb,         \* undefined behaviour met: accesses to a freed box
    \* ---- Backoff
    step,          \* Backoff's spin-count step
    spin,          \* busy-spin iterations the running snooze still has to make
    \* ---- history (ghost) variables of the Backoff
    spun,          \* iterations the latest snooze has made
    snoozes,       \* snooze calls since the Backoff was new or reset
    yields         \* of those, the ones that yielded the thread

bufVars == <<head, tail, cached_head, cached_tail, buffer, sequence>>

ghostVars == <<pushed, popped, absq, last, before, fate, slotElem, ub, dropLog,
               written, wasFull>>

arcVars == <<ref_count, allocated, holds, apc, aborted, freed, nClones, nDrops, arcUb>>

\* a Backoff: its step, the iterations its snooze still has to spin, those it
\* has spun, and the snoozes and yields since it was new or reset
backoffVars == <<step, spin, spun, snoozes, yields>>

vars == <<driver, kind, N, needs_drop, bufVars, pc, loc, dropped, ghostVars, arcVars, backoffVars>>

NoLoc == [head |-> 0, tail |-> 0, seq |-> 0, value |-> 0]

NoResult == [tag |-> "none", val |-> 0]

Ok == [tag |-> "Ok", val |-> 0]

Err(v) == [tag |-> "Err", val |-> v]

Some(v) == [tag |-> "Some", val |-> v]

None == [tag |-> "None", val |-> 0]

NoSnap == [active |-> FALSE]

NoLast == [call |-> "none", val |-> 0, res |-> NoResult, exp |-> NoResult]

UsizeModulus == Pow2(UsizeBits)

\* usize::wrapping_add
WrappingAdd(a, b) == (a + b) % UsizeModulus

\* usize::wrapping_sub
WrappingSub(a, b) == (a - b) % UsizeModulus

\* `x as isize`
AsIsize(x) == IF x >= UsizeModulus \div 2 THEN x - UsizeModulus ELSE x

\* index & (N - 1), for N a power of two
Mask(i) == i % N

AllIdle == \A t \in Threads : pc[t] = "idle"

\* the fields of the buffer, as a call finds them
Snapshot == [active |-> TRUE, head |-> head, tail |-> tail, cached_head |-> cached_head,
             cached_tail |-> cached_tail, buffer |-> buffer, sequence |-> sequence]

\* new() has returned the buffer
Built == driver \in {"single", "threads"}

MayStart(t) == Built /\ pc[t] = "idle" /\ ~dropped

\* ------------------------------------------------- history bookkeeping
\* a value is moved into slot i (MaybeUninit::write): what was held there and never
\* read or dropped is overwritten without its destructor running
GhostWrite(i) ==
    LET old == slotElem[i]
        f1 == IF old # 0 /\ fate[old] = "held" THEN [fate EXCEPT ![old] = "lost"] ELSE fate
    IN /\ fate' = Append(f1, "held")
       /\ slotElem' = [slotElem EXCEPT ![i] = Len(fate) + 1]
       /\ UNCHANGED ub

\* the element of slot i is taken out (assume_init_read) or destroyed in place
\* (drop_in_place); how is "popped" or "dropped"
TakeFate(f, i, how) ==
    LET e == slotElem[i]
    IN IF e = 0 THEN f
       ELSE IF f[e] = "held" THEN [f EXCEPT ![e] = how]
       ELSE [f EXCEPT ![e] = "double"]

GhostRead(i) ==
    /\ fate' = TakeFate(fate, i, "popped")
    /\ ub' = IF slotElem[i] = 0 THEN ub \cup {"uninit_read"} ELSE ub
    /\ UNCHANGED slotElem

\* a multiset of values is kept as a sorted sequence
RECURSIVE SortedInsert(_, _)
SortedInsert(s, v) ==
    IF s = <<>> THEN <<v>>
    ELSE IF v <= Head(s) THEN <<v>> \o s
    ELSE <<Head(s)>> \o SortedInsert(Tail(s), v)

Record(h, v) ==
    IF kind = "mpmc" /\ driver = "threads" THEN SortedInsert(h, v) ELSE Append(h, v)

\* what the abstract bounded FIFO of capacity N answers to a push of v, to a pop
AbsPush(v) == IF Len(absq) < N THEN Ok ELSE Err(v)

AbsPop == IF absq = <<>> THEN None ELSE Some(Head(absq))

\* the positions of a push call
PushPcs == {"push_reload", "push_write", "push_publish", "push_loadseq", "push_head",
            "push_claimed", "push_seqstore", "push_snooze"}

\* thread t moves to position p: every MPMC push in progress notes whether the
\* buffer is full (head - tail = N) in the state the step is taken from
NoteFull(t, p) ==
    [u \in Threads |->
        /\ kind = "mpmc"
        /\ (IF u = t THEN p ELSE pc[u]) \in PushPcs
        /\ (wasFull[u] \/ WrappingSub(head, tail) = N)]

\* a push call of thread t returns res for the offered value v
ReturnPush(t, v, res) ==
    /\ pc' = [pc EXCEPT ![t] = "idle"]
    /\ wasFull' = NoteFull(t, "idle")
    /\ loc' = [loc EXCEPT ![t] = NoLoc]
    /\ last' = [call |-> "push", val |-> v, res |-> res,
                exp |-> IF driver = "single" THEN AbsPush(v) ELSE NoResult]
    /\ absq' = IF driver = "single" /\ Len(absq) < N THEN Append(absq, v) ELSE absq
    /\ pushed' = IF res = Ok THEN Record(pushed, v) ELSE pushed
    /\ UNCHANGED <<popped, before, driver, kind, N, needs_drop, arcVars, backoffVars>>

\* a pop call of thread t returns res
ReturnPop(t, res) ==
    /\ pc' = [pc EXCEPT ![t] = "idle"]
    /\ wasFull' = NoteFull(t, "idle")
    /\ loc' = [loc EXCEPT ![t] = NoLoc]
    /\ last' = [call |-> "pop", val |-> 0, res |-> res,
                exp |-> IF driver = "single" THEN AbsPop ELSE NoResult]
    /\ absq' = IF driver = "single" /\ absq # <<>> THEN Tail(absq) ELSE absq
    /\ popped' = IF res.tag = "Some" THEN Record(popped, res.val) ELSE popped
    /\ UNCHANGED <<pushed, before, driver, kind, N, needs_drop, arcVars, backoffVars>>

\* thread t moves on to position p of its call
Goto(t, p) ==
    /\ pc' = [pc EXCEPT ![t] = p]
    /\ wasFull' = NoteFull(t, p)
    /\ last' = NoLast
    /\ UNCHANGED <<absq, pushed, popped, before, driver, kind, N, needs_drop, arcVars, backoffVars>>

\* thread t begins a call at position p
Begin(t, p) ==
    /\ pc' = [pc EXCEPT ![t] = p]
    /\ wasFull' = NoteFull(t, p)
    /\ last' = NoLast
    /\ before' = IF driver = "single" THEN Snapshot ELSE before
    /\ UNCHANGED <<absq, pushed, popped, driver, kind, N, needs_drop, arcVars, backoffVars>>

\* ------------------------------------------------ AtomicRingBufferSpsc
\* fault: the test for full is missing
SpscPushStartNoCheck(t, v) ==
    /\ kind = "spsc"
    /\ MayStart(t)
    /\ loc' = [loc EXCEPT ![t] = [NoLoc EXCEPT !.head = head, !.tail = cached_tail,
                                                !.value = v]]
    /\ Begin(t, "push_write")
    /\ UNCHANGED <<bufVars, dropped, fate, slotElem, ub, dropLog, written>>

\* push, lines 38-44: load head, read cached_tail, test for full
SpscPushStart(t, v) ==
    /\ kind = "spsc"
    /\ MayStart(t)
    /\ loc' = [loc EXCEPT ![t] = [NoLoc EXCEPT !.head = head, !.tail = cached_tail,
                                                !.value = v]]
    /\ Begin(t, IF WrappingSub(head, cached_tail) = N
                    THEN "push_reload" ELSE "push_write")
    /\ UNCHANGED <<bufVars, dropped, fate, slotElem, ub, dropLog, written>>

\* fault: the refreshed cache takes the value of head instead of tail
SpscPushReloadCachesHead(t) ==
    /\ pc[t] = "push_reload"
    /\ cached_tail' = head
    /\ IF WrappingSub(loc[t].head, tail) = N
       THEN ReturnPush(t, loc[t].value, Err(loc[t].value))
       ELSE Goto(t, "push_write") /\ loc' = [loc EXCEPT ![t].tail = tail]
    /\ UNCHANGED <<head, tail, cached_head, buffer, sequence, dropped,
                   fate, slotElem, ub, dropLog, written>>

\* push, lines 45-53: acquire-load tail, refresh cached_tail, test again
SpscPushReload(t) ==
    /\ pc[t] = "push_reload"
    /\ cached_tail' = tail
    /\ IF WrappingSub(loc[t].head, tail) = N
       THEN ReturnPush(t, loc[t].value, Err(loc[t].value))
       ELSE Goto(t, "push_write") /\ loc' = [loc EXCEPT ![t].tail = tail]
    /\ UNCHANGED <<head, tail, cached_head, buffer, sequence, dropped,
                   fate, slotElem, ub, dropLog, written>>

\* fault: the slot is indexed by the local tail instead of head
SpscPushWriteAtTail(t) ==
    /\ pc[t] = "push_write"
    /\ buffer' = [buffer EXCEPT ![Mask(loc[t].tail)] = loc[t].value]
    /\ GhostWrite(Mask(loc[t].tail))
    /\ Goto(t, "push_publish")
    /\ UNCHANGED <<head, tail, cached_head, cached_tail, sequence, loc, dropped, dropLog, written>>

\* fault: head is stored where the slot should be written
SpscPushWritePublishes(t) ==
    /\ pc[t] = "push_write"
    /\ head' = WrappingAdd(loc[t].head, 1)
    /\ Goto(t, "push_publish")
    /\ UNCHANGED <<tail, cached_head, cached_tail, buffer, sequence, loc, dropped,
                   fate, slotElem, ub, dropLog, written>>

\* push, lines 56-60: write the value into slot head & (N - 1)
SpscPushWrite(t) ==
    /\ pc[t] = "push_write"
    /\ buffer' = [buffer EXCEPT ![Mask(loc[t].head)] = loc[t].value]
    /\ GhostWrite(Mask(loc[t].head))
    /\ Goto(t, "push_publish")
    /\ UNCHANGED <<head, tail, cached_head, cached_tail, sequence, loc, dropped, dropLog, written>>

\* push, lines 62-64: release-store head + 1, return Ok
SpscPushPublish(t) ==
    /\ pc[t] = "push_publish"
    /\ head' = WrappingAdd(loc[t].head, 1)
    /\ ReturnPush(t, loc[t].value, Ok)
    /\ UNCHANGED <<tail, cached_head, cached_tail, buffer, sequence, dropped,
                   fate, slotElem, ub, dropLog, written>>

\* pop, lines 68-75: load tail, read cached_head, test for empty
SpscPopStart(t) ==
    /\ kind = "spsc"
    /\ MayStart(t)
    /\ loc' = [loc EXCEPT ![t] = [NoLoc EXCEPT !.tail = tail, !.head = cached_head]]
    /\ Begin(t, IF tail = cached_head THEN "pop_reload" ELSE "pop_read")
    /\ UNCHANGED <<bufVars, dropped, fate, slotElem, ub, dropLog, written>>

\* fault: the test after the refresh is missing
SpscPopReloadNoCheck(t) ==
    /\ pc[t] = "pop_reload"
    /\ cached_head' = head
    /\ Goto(t, "pop_read")
    /\ loc' = [loc EXCEPT ![t].head = head]
    /\ UNCHANGED <<head, tail, cached_tail, buffer, sequence, dropped,
                   fate, slotElem, ub, dropLog, written>>

\* fault: the refreshed cache runs one ahead of head
SpscPopReloadCachesAhead(t) ==
    /\ pc[t] = "pop_reload"
    /\ cached_head' = WrappingAdd(head, 1)
    /\ IF head = loc[t].tail
       THEN ReturnPop(t, None)
       ELSE Goto(t, "pop_read") /\ loc' = [loc EXCEPT ![t].head = head]
    /\ UNCHANGED <<head, tail, cached_tail, buffer, sequence, dropped,
                   fate, slotElem, ub, dropLog, written>>

\* pop, lines 76-84: acquire-load head, refresh cached_head, test again
SpscPopReload(t) ==
    /\ pc[t] = "pop_reload"
    /\ cached_head' = head
    /\ IF head = loc[t].tail
       THEN ReturnPop(t, None)
       ELSE Goto(t, "pop_read") /\ loc' = [loc EXCEPT ![t].head = head]
    /\ UNCHANGED <<head, tail, cached_tail, buffer, sequence, dropped,
                   fate, slotElem, ub, dropLog, written>>

\* fault: the slot is indexed by the local head instead of tail
SpscPopReadAtHead(t) ==
    /\ pc[t] = "pop_read"
    /\ loc' = [loc EXCEPT ![t].value = buffer[Mask(loc[t].head)]]
    /\ GhostRead(Mask(loc[t].head))
    /\ Goto(t, "pop_publish")
    /\ UNCHANGED <<bufVars, dropped, dropLog, written>>

\* pop, lines 87-92: assume_init_read of slot tail & (N - 1)
SpscPopRead(t) ==
    /\ pc[t] = "pop_read"
    /\ loc' = [loc EXCEPT ![t].value = buffer[Mask(loc[t].tail)]]
    /\ GhostRead(Mask(loc[t].tail))
    /\ Goto(t, "pop_publish")
    /\ UNCHANGED <<bufVars, dropped, dropLog, written>>

\* fault: tail is advanced by two
SpscPopPublishSkips(t) ==
    /\ pc[t] = "pop_publish"
    /\ tail' = WrappingAdd(loc[t].tail, 2)
    /\ ReturnPop(t, Some(loc[t].value))
    /\ UNCHANGED <<head, cached_head, cached_tail, buffer, sequence, dropped,
                   fate, slotElem, ub, dropLog, written>>

\* pop, lines 94-96: release-store tail + 1, return Some(value)
SpscPopPublish(t) ==
    /\ pc[t] = "pop_publish"
    /\ tail' = WrappingAdd(loc[t].tail, 1)
    /\ ReturnPop(t, Some(loc[t].value))
    /\ UNCHANGED <<head, cached_head, cached_tail, buffer, sequence, dropped,
                   fate, slotElem, ub, dropLog, written>>

\* ------------------------------------------------ AtomicRingBufferMpmc
\* push, lines 41-42: load head
MpmcPushStart(t, v) ==
    /\ kind = "mpmc"
    /\ MayStart(t)
    /\ loc' = [loc EXCEPT ![t] = [NoLoc EXCEPT !.head = head, !.value = v]]
    /\ Begin(t, "push_loadseq")
    /\ UNCHANGED <<bufVars, dropped, fate, slotElem, ub, dropLog, written>>

\* push, lines 45-50: acquire-load the sequence of slot head & (N - 1)
MpmcPushLoadSeq(t) ==
    /\ pc[t] = "push_loadseq"
    /\ loc' = [loc EXCEPT ![t].seq = sequence[Mask(loc[t].head)]]
    /\ Goto(t, "push_head")
    /\ UNCHANGED <<bufVars, dropped, fate, slotElem, ub, dropLog, written>>

\* push, line 52: seq as isize - head as isize
PushDiff(t) == AsIsize(loc[t].seq) - AsIsize(loc[t].head)

\* push, lines 54-82: the access to head that diff selects.  diff = 0: compare-
\* exchange-weak head -> head + 1, which may fail spuriously and then hands back
\* the current head; diff < 0: reload head, Err(value) if it has not moved, else
\* `continue`; diff > 0: reload head.
MpmcPushHead(t) ==
    /\ pc[t] = "push_head"
    /\ IF PushDiff(t) = 0
       THEN \E spurious \in BOOLEAN :
              IF head = loc[t].head /\ ~spurious
              THEN /\ head' = loc[t].head + 1
                   /\ Goto(t, "push_claimed")
                   /\ UNCHANGED loc
              ELSE /\ loc' = [loc EXCEPT ![t].head = head]
                   /\ Goto(t, "push_snooze")
                   /\ UNCHANGED head
       ELSE IF PushDiff(t) < 0
       THEN /\ IF head # loc[t].head
               THEN /\ loc' = [loc EXCEPT ![t].head = head]
                    /\ Goto(t, "push_loadseq")
               ELSE ReturnPush(t, loc[t].value, Err(loc[t].value))
            /\ UNCHANGED head
       ELSE /\ loc' = [loc EXCEPT ![t].head = head]
            /\ Goto(t, "push_snooze")
            /\ UNCHANGED head
    /\ UNCHANGED <<tail, cached_head, cached_tail, buffer, sequence, dropped,
                   fate, slotElem, ub, dropLog, written>>

\* push, lines 62-64: write the value into the claimed slot
MpmcPushWrite(t) ==
    /\ pc[t] = "push_claimed"
    /\ buffer' = [buffer EXCEPT ![Mask(loc[t].head)] = loc[t].value]
    /\ GhostWrite(Mask(loc[t].head))
    /\ written' = written \cup {<<loc[t].head, loc[t].value>>}
    /\ Goto(t, "push_seqstore")
    /\ UNCHANGED <<head, tail, cached_head, cached_tail, sequence, loc, dropped, dropLog>>

\* fault: the sequence stored after the write is head, not head + 1
MpmcPushPublishNoBump(t) ==
    /\ pc[t] = "push_seqstore"
    /\ sequence' = [sequence EXCEPT ![Mask(loc[t].head)] = loc[t].head]
    /\ ReturnPush(t, loc[t].value, Ok)
    /\ UNCHANGED <<head, tail, cached_head, cached_tail, buffer, dropped,
                   fate, slotElem, ub, dropLog, written>>

\* push, lines 65-66: release-store sequence = head + 1, return Ok
MpmcPushPublish(t) ==
    /\ pc[t] = "push_seqstore"
    /\ sequence' = [sequence EXCEPT ![Mask(loc[t].head)] = WrappingAdd(loc[t].head, 1)]
    /\ ReturnPush(t, loc[t].value, Ok)
    /\ UNCHANGED <<head, tail, cached_head, cached_tail, buffer, dropped,
                   fate, slotElem, ub, dropLog, written>>

\* push, line 84: backoff.snooze(), then the next iteration
MpmcPushSnooze(t) ==
    /\ pc[t] = "push_snooze"
    /\ Goto(t, "push_loadseq")
    /\ UNCHANGED <<bufVars, loc, dropped, fate, slotElem, ub, dropLog, written>>

\* pop, lines 89-90: load tail
MpmcPopStart(t) ==
    /\ kind = "mpmc"
    /\ MayStart(t)
    /\ loc' = [loc EXCEPT ![t] = [NoLoc EXCEPT !.tail = tail]]
    /\ Begin(t, "pop_loadseq")
    /\ UNCHANGED <<bufVars, dropped, fate, slotElem, ub, dropLog, written>>

\* pop, lines 93-99: acquire-load the sequence of slot tail & (N - 1)
MpmcPopLoadSeq(t) ==
    /\ pc[t] = "pop_loadseq"
    /\ loc' = [loc EXCEPT ![t].seq = sequence[Mask(loc[t].tail)]]
    /\ Goto(t, "pop_tail")
    /\ UNCHANGED <<bufVars, dropped, fate, slotElem, ub, dropLog, written>>

\* fault: the sequence is compared with tail instead of tail + 1
PopDiffOffByOne(t) == AsIsize(loc[t].seq) - AsIsize(loc[t].tail)

\* pop, line 101: seq as isize - (tail.wrapping_add(1) as isize)
PopDiff(t) == AsIsize(loc[t].seq) - AsIsize(WrappingAdd(loc[t].tail, 1))

\* fault: a failed compare-exchange goes straight round the loop
MpmcPopTailNoSnooze(t) ==
    /\ pc[t] = "pop_tail"
    /\ IF PopDiff(t) = 0
       THEN \E spurious \in BOOLEAN :
              IF tail = loc[t].tail /\ ~spurious
              THEN /\ tail' = loc[t].tail + 1
                   /\ Goto(t, "pop_claimed")
                   /\ UNCHANGED loc
              ELSE /\ loc' = [loc EXCEPT ![t].tail = tail]
                   /\ Goto(t, "pop_loadseq")
                   /\ UNCHANGED tail
       ELSE IF PopDiff(t) < 0
       THEN /\ ReturnPop(t, None)
            /\ UNCHANGED tail
       ELSE /\ loc' = [loc EXCEPT ![t].tail = tail]
            /\ Goto(t, "pop_snooze")
            /\ UNCHANGED tail
    /\ UNCHANGED <<head, cached_head, cached_tail, buffer, sequence, dropped,
                   fate, slotElem, ub, dropLog, written>>

\* fault: tail is advanced by a plain store, not by a compare-exchange
MpmcPopTailStore(t) ==
    /\ pc[t] = "pop_tail"
    /\ IF PopDiff(t) = 0
       THEN /\ tail' = loc[t].tail + 1
            /\ Goto(t, "pop_claimed")
            /\ UNCHANGED loc
       ELSE IF PopDiff(t) < 0
       THEN /\ ReturnPop(t, None)
            /\ UNCHANGED tail
       ELSE /\ loc' = [loc EXCEPT ![t].tail = tail]
            /\ Goto(t, "pop_snooze")
            /\ UNCHANGED tail
    /\ UNCHANGED <<head, cached_head, cached_tail, buffer, sequence, dropped,
                   fate, slotElem, ub, dropLog, written>>

\* fault: a slot that is not yet published makes pop back off and try again
MpmcPopTailWaits(t) ==
    /\ pc[t] = "pop_tail"
    /\ IF PopDiff(t) = 0
       THEN \E spurious \in BOOLEAN :
              IF tail = loc[t].tail /\ ~spurious
              THEN /\ tail' = loc[t].tail + 1
                   /\ Goto(t, "pop_claimed")
                   /\ UNCHANGED loc
              ELSE /\ loc' = [loc EXCEPT ![t].tail = tail]
                   /\ Goto(t, "pop_snooze")
                   /\ UNCHANGED tail
       ELSE /\ loc' = [loc EXCEPT ![t].tail = tail]
            /\ Goto(t, "pop_snooze")
            /\ UNCHANGED tail
    /\ UNCHANGED <<head, cached_head, cached_tail, buffer, sequence, dropped,
                   fate, slotElem, ub, dropLog, written>>

\* pop, lines 103-125: diff = 0: compare-exchange-weak tail -> tail + 1;
\* diff < 0: return None; diff > 0: reload tail.
MpmcPopTail(t) ==
    /\ pc[t] = "pop_tail"
    /\ IF PopDiff(t) = 0
       THEN \E spurious \in BOOLEAN :
              IF tail = loc[t].tail /\ ~spurious
              THEN /\ tail' = loc[t].tail + 1
                   /\ Goto(t, "pop_claimed")
                   /\ UNCHANGED loc
              ELSE /\ loc' = [loc EXCEPT ![t].tail = tail]
                   /\ Goto(t, "pop_snooze")
                   /\ UNCHANGED tail
       ELSE IF PopDiff(t) < 0
       THEN /\ ReturnPop(t, None)
            /\ UNCHANGED tail
       ELSE /\ loc' = [loc EXCEPT ![t].tail = tail]
            /\ Goto(t, "pop_snooze")
            /\ UNCHANGED tail
    /\ UNCHANGED <<head, cached_head, cached_tail, buffer, sequence, dropped,
                   fate, slotElem, ub, dropLog, written>>

\* fault: the slot after the claimed one is read
MpmcPopReadNextSlot(t) ==
    /\ pc[t] = "pop_claimed"
    /\ loc' = [loc EXCEPT ![t].value = buffer[Mask(loc[t].tail + 1)]]
    /\ GhostRead(Mask(loc[t].tail + 1))
    /\ Goto(t, "pop_seqstore")
    /\ UNCHANGED <<bufVars, dropped, dropLog, written>>

\* pop, line 111: assume_init_read of the claimed slot
MpmcPopRead(t) ==
    /\ pc[t] = "pop_claimed"
    /\ loc' = [loc EXCEPT ![t].value = buffer[Mask(loc[t].tail)]]
    /\ GhostRead(Mask(loc[t].tail))
    /\ Goto(t, "pop_seqstore")
    /\ UNCHANGED <<bufVars, dropped, dropLog, written>>

\* fault: the slot is released for tail + 1 instead of tail + N
MpmcPopPublishNoLap(t) ==
    /\ pc[t] = "pop_seqstore"
    /\ sequence' = [sequence EXCEPT ![Mask(loc[t].tail)] = WrappingAdd(loc[t].tail, 1)]
    /\ written' = {w \in written : w[1] # loc[t].tail}
    /\ ReturnPop(t, Some(loc[t].value))
    /\ UNCHANGED <<head, tail, cached_head, cached_tail, buffer, dropped,
                   fate, slotElem, ub, dropLog>>

\* pop, lines 113-115: release-store sequence = tail + N, return Some(value)
MpmcPopPublish(t) ==
    /\ pc[t] = "pop_seqstore"
    /\ sequence' = [sequence EXCEPT ![Mask(loc[t].tail)] = WrappingAdd(loc[t].tail, N)]
    /\ written' = {w \in written : w[1] # loc[t].tail}
    /\ ReturnPop(t, Some(loc[t].value))
    /\ UNCHANGED <<head, tail, cached_head, cached_tail, buffer, dropped,
                   fate, slotElem, ub, dropLog>>

\* pop, line 127: backoff.snooze(), then the next iteration
MpmcPopSnooze(t) ==
    /\ pc[t] = "pop_snooze"
    /\ Goto(t, "pop_loadseq")
    /\ UNCHANGED <<bufVars, loc, dropped, fate, slotElem, ub, dropLog, written>>

\* ---------------------------------------------------------- introspection
\* the thread that calls read_head, read_tail and exists
Observer == "c2"

Usize(x) == [tag |-> "usize", val |-> x]

Bool(b) == [tag |-> IF b THEN "true" ELSE "false", val |-> 0]

\* AtomicRingBufferSpsc::exists, lines 109-118, on the loaded head and tail
SpscExists(h, t, index) ==
    IF h = t THEN FALSE
    ELSE LET hm == Mask(h)
             tm == Mask(t)
         IN IF hm > tm THEN hm > index /\ index > tm
            ELSE ~(index >= hm /\ tm > index)

\* AtomicRingBufferMpmc::exists, lines 141-150, on the loaded head and tail
MpmcExists(h, t, index) ==
    IF h = t THEN FALSE
    ELSE LET hm == Mask(h)
             tm == Mask(t)
         IN IF hm > tm THEN hm > index /\ index >= tm
            ELSE ~(index >= hm /\ tm > index)

\* an introspection call returns res; no field of the buffer is written
Introspected(t, p, l, lst) ==
    /\ pc' = [pc EXCEPT ![t] = p]
    /\ loc' = [loc EXCEPT ![t] = l]
    /\ last' = lst
    /\ wasFull' = NoteFull(t, p)
    /\ UNCHANGED <<driver, kind, N, needs_drop, bufVars, dropped, pushed, popped, absq,
                   before, fate, slotElem, ub, dropLog, written, arcVars, backoffVars>>

\* fault: the position is returned unreduced
ReadHeadRaw(t) ==
    /\ MayStart(t)
    /\ Introspected(t, "idle", NoLoc,
                    [call |-> "read_head", val |-> 0, res |-> Usize(head), exp |-> NoResult])

\* read_head, lines 98-100: acquire-load head, % N
ReadHead(t) ==
    /\ MayStart(t)
    /\ Introspected(t, "idle", NoLoc,
                    [call |-> "read_head", val |-> 0, res |-> Usize(head % N), exp |-> NoResult])

\* read_tail, lines 102-104: acquire-load tail, % N
ReadTail(t) ==
    /\ MayStart(t)
    /\ Introspected(t, "idle", NoLoc,
                    [call |-> "read_tail", val |-> 0, res |-> Usize(tail % N), exp |-> NoResult])

\* exists, line 107: acquire-load tail
ExistsLoadTail(t, index) ==
    /\ MayStart(t)
    /\ Introspected(t, "exists_head", [NoLoc EXCEPT !.tail = tail, !.value = index], NoLast)

\* what exists answers if it loads head now
ExistsAnswer(t) ==
    IF kind = "spsc" THEN SpscExists(head, loc[t].tail, loc[t].value)
    ELSE MpmcExists(head, loc[t].tail, loc[t].value)

\* exists, lines 108-118: acquire-load head, compare, return
ExistsLoadHead(t) ==
    /\ pc[t] = "exists_head"
    /\ Introspected(t, "idle", NoLoc,
                    [call |-> "exists", val |-> loc[t].value, res |-> Bool(ExistsAnswer(t)),
                     exp |-> NoResult])

\* ------------------------------------------------------------------ Drop
\* Drop for AtomicRingBufferSpsc, lines 125-136: the positions tail .. head - 1
RECURSIVE SpscDropPositions(_, _)
SpscDropPositions(current, h) ==
    IF current = h THEN <<>>
    ELSE <<current>> \o SpscDropPositions(WrappingAdd(current, 1), h)

\* Drop for AtomicRingBufferMpmc, lines 160-178: the positions tail .. head - 1
\* whose slot's sequence says the write of that position completed
RECURSIVE MpmcDropPositions(_, _)
MpmcDropPositions(t, h) ==
    IF t = h THEN <<>>
    ELSE (IF sequence[Mask(t)] = WrappingAdd(t, 1) THEN <<t>> ELSE <<>>)
         \o MpmcDropPositions(WrappingAdd(t, 1), h)

\* drop_in_place on the slot of each position, in order
RECURSIVE DropFates(_, _)
DropFates(f, ps) ==
    IF ps = <<>> THEN f
    ELSE DropFates(TakeFate(f, Mask(Head(ps)), "dropped"), Tail(ps))

\* the buffer is destroyed (the last Arc handle is gone, so no call is running);
\* nothing is walked when the payload type needs no drop
Drop ==
    /\ Built
    /\ AllIdle
    /\ ~dropped
    /\ dropped' = TRUE
    /\ LET ps == IF ~needs_drop THEN <<>>
                 ELSE IF kind = "spsc" THEN SpscDropPositions(tail, head)
                 ELSE MpmcDropPositions(tail, head)
       IN /\ dropLog' = ps
          /\ fate' = DropFates(fate, ps)
          /\ ub' = IF \E k \in 1..Len(ps) : slotElem[Mask(ps[k])] = 0
                   THEN ub \cup {"uninit_drop"} ELSE ub
    /\ last' = NoLast
    /\ UNCHANGED <<driver, kind, N, needs_drop, bufVars, pc, loc, pushed, popped,
                   absq, before, slotElem, written, wasFull, arcVars, backoffVars>>

\* ---------------------------------------------------------- primitives::Arc
ArcThreads == {"p1", "c1", "c2"}

\* the thread that called Arc::new
ArcOwner == "p1"

UsizeMax == UsizeModulus - 1

LiveHandles == holds["p1"] + holds["c1"] + holds["c2"]

\* Arc::new, lines 21-28: the box is leaked with ref_count 1, one handle exists
ArcNew ==
    /\ ref_count = 1
    /\ allocated = TRUE
    /\ holds = [t \in ArcThreads |-> IF t = ArcOwner THEN 1 ELSE 0]
    /\ apc = [t \in ArcThreads |-> "idle"]
    /\ aborted = FALSE
    /\ freed = 0
    /\ nClones = 0
    /\ nDrops = 0
    /\ arcUb = {}

\* self.data(): a handle's pointer is followed
Touch == IF allocated THEN arcUb ELSE arcUb \cup {"use_after_free"}

\* a step of an Arc operation other than get_mut: no buffer call returns with it
RingUnchanged ==
    /\ last' = NoLast
    /\ UNCHANGED <<driver, kind, N, needs_drop, bufVars, pc, loc, dropped, pushed, popped,
                   absq, before, fate, slotElem, ub, dropLog, written, wasFull,
                   backoffVars>>

\* clones one run makes: the tests' few, or as many as the width of the count
\* allows when the handles are leaked
CloneLimit == IF driver = "leak" THEN UsizeModulus + 1 ELSE MaxClones

\* fault: mutable access is given while one other handle exists
ArcGetMutAtMostTwo(t) ==
    /\ ~aborted
    /\ apc[t] = "idle"
    /\ holds[t] >= 1
    /\ arcUb' = Touch
    /\ last' = [call |-> "get_mut", val |-> ref_count,
                res |-> IF ref_count <= 2 THEN Some(0) ELSE None, exp |-> NoResult]
    /\ UNCHANGED <<ref_count, allocated, holds, apc, aborted, freed, nClones, nDrops>>
    /\ UNCHANGED <<driver, kind, N, needs_drop, bufVars, pc, loc, dropped, pushed, popped,
                   absq, before, fate, slotElem, ub, dropLog, written, wasFull,
                   backoffVars>>

\* Arc::get_mut, lines 34-41: relaxed load of the count; Some(&mut data) if it is 1,
\* else None
ArcGetMut(t) ==
    /\ ~aborted
    /\ apc[t] = "idle"
    /\ holds[t] >= 1
    /\ arcUb' = Touch
    /\ last' = [call |-> "get_mut", val |-> ref_count,
                res |-> IF ref_count = 1 THEN Some(0) ELSE None, exp |-> NoResult]
    /\ UNCHANGED <<ref_count, allocated, holds, apc, aborted, freed, nClones, nDrops>>
    /\ UNCHANGED <<driver, kind, N, needs_drop, bufVars, pc, loc, dropped, pushed, popped,
                   absq, before, fate, slotElem, ub, dropLog, written, wasFull,
                   backoffVars>>

\* a handle is leaked (std::mem::forget): it is gone and was never dropped
ArcLeak(t) ==
    /\ driver = "leak"
    /\ ~aborted
    /\ apc[t] = "idle"
    /\ holds[t] >= 1
    /\ holds' = [holds EXCEPT ![t] = @ - 1]
    /\ UNCHANGED <<ref_count, allocated, apc, aborted, freed, nClones, nDrops, arcUb>>
    /\ RingUnchanged

\* fault: the count is not guarded against overflow
ArcCloneNoGuard(t, u) ==
    /\ ~aborted
    /\ apc[t] = "idle"
    /\ holds[t] >= 1
    /\ nClones < CloneLimit
    /\ arcUb' = Touch
    /\ ref_count' = WrappingAdd(ref_count, 1)
    /\ holds' = [holds EXCEPT ![u] = @ + 1]
    /\ nClones' = nClones + 1
    /\ UNCHANGED <<aborted, allocated, apc, freed, nDrops>>
    /\ RingUnchanged

\* fault: the new handle is made without counting it
ArcCloneNoCount(t, u) ==
    /\ ~aborted
    /\ apc[t] = "idle"
    /\ holds[t] >= 1
    /\ nClones < MaxClones
    /\ arcUb' = Touch
    /\ holds' = [holds EXCEPT ![u] = @ + 1]
    /\ nClones' = nClones + 1
    /\ UNCHANGED <<ref_count, aborted, allocated, apc, freed, nDrops>>
    /\ RingUnchanged

\* Clone for Arc, lines 52-57: fetch_add(1); abort if the count it found is above
\* usize::MAX / 2; else a handle to the same box, kept or moved to thread u
ArcClone(t, u) ==
    /\ ~aborted
    /\ apc[t] = "idle"
    /\ holds[t] >= 1
    /\ nClones < CloneLimit
    /\ arcUb' = Touch
    /\ ref_count' = WrappingAdd(ref_count, 1)
    /\ IF ref_count > UsizeMax \div 2
       THEN /\ aborted' = TRUE
            /\ UNCHANGED <<holds, nClones>>
       ELSE /\ holds' = [holds EXCEPT ![u] = @ + 1]
            /\ nClones' = nClones + 1
            /\ UNCHANGED aborted
    /\ UNCHANGED <<allocated, apc, freed, nDrops>>
    /\ RingUnchanged

\* Deref for Arc, lines 46-48
ArcDeref(t) ==
    /\ ~aborted
    /\ apc[t] = "idle"
    /\ holds[t] >= 1
    /\ arcUb' = Touch
    /\ UNCHANGED <<ref_count, allocated, holds, apc, aborted, freed, nClones, nDrops>>
    /\ RingUnchanged

\* fault: the box is freed by the drop that leaves the count at 1
ArcDropDecOffByOne(t) ==
    /\ ~aborted
    /\ apc[t] = "idle"
    /\ holds[t] >= 1
    /\ arcUb' = Touch
    /\ holds' = [holds EXCEPT ![t] = @ - 1]
    /\ ref_count' = WrappingSub(ref_count, 1)
    /\ IF ref_count = 2
       THEN apc' = [apc EXCEPT ![t] = "free"] /\ UNCHANGED nDrops
       ELSE nDrops' = nDrops + 1 /\ UNCHANGED apc
    /\ UNCHANGED <<allocated, aborted, freed, nClones>>
    /\ RingUnchanged

\* Drop for Arc, line 62: the handle is given up, fetch_sub(1); the drop that
\* finds 1 goes on to free the box, every other drop returns
ArcDropDec(t) ==
    /\ ~aborted
    /\ apc[t] = "idle"
    /\ holds[t] >= 1
    /\ arcUb' = Touch
    /\ holds' = [holds EXCEPT ![t] = @ - 1]
    /\ ref_count' = WrappingSub(ref_count, 1)
    /\ IF ref_count = 1
       THEN apc' = [apc EXCEPT ![t] = "free"] /\ UNCHANGED nDrops
       ELSE nDrops' = nDrops + 1 /\ UNCHANGED apc
    /\ UNCHANGED <<allocated, aborted, freed, nClones>>
    /\ RingUnchanged

\* Drop for Arc, lines 63-66: acquire fence, then Box::from_raw is dropped: the
\* value's destructor runs and the box is freed
ArcDropFree(t) ==
    /\ ~aborted
    /\ apc[t] = "free"
    /\ arcUb' = IF allocated THEN arcUb ELSE arcUb \cup {"double_free"}
    /\ allocated' = FALSE
    /\ freed' = freed + 1
    /\ apc' = [apc EXCEPT ![t] = "idle"]
    /\ nDrops' = nDrops + 1
    /\ UNCHANGED <<ref_count, holds, aborted, nClones>>
    /\ RingUnchanged

\* ------------------------------------------------------- specifications
\* new(), spsc lines 21-35 and mpmc lines 25-38: the const assertion admits N,
\* head = tail = 0, slot i's sequence is i
\* ------------------------------------------------------------------ Backoff
\* the last step at which snooze still spins
SpinLimit == 6

\* Backoff::new(): the step starts at 0
BackoffNew ==
    /\ step = 0
    /\ spin = 0
    /\ spun = 0
    /\ snoozes = 0
    /\ yields = 0

BackoffDid(call) == [call |-> call, val |-> step, res |-> NoResult, exp |-> NoResult]

BackoffOnly ==
    UNCHANGED <<driver, kind, N, needs_drop, bufVars, pc, loc, dropped, pushed, popped,
                absq, before, fate, slotElem, ub, dropLog, written, wasFull, arcVars>>

\* fault: the snooze at the last spinning step yields already
BackoffSnoozeYieldsEarly ==
    /\ driver = "backoff"
    /\ spin = 0
    /\ snoozes < MaxSnooze
    /\ snoozes' = snoozes + 1
    /\ spun' = 0
    /\ IF step < SpinLimit
         THEN spin' = Pow2(step) /\ UNCHANGED <<step, yields>>
         ELSE yields' = yields + 1 /\ UNCHANGED <<step, spin>>
    /\ last' = BackoffDid("snooze")
    /\ BackoffOnly

\* snooze(): up to step 6 it sets out to busy-spin 2^step iterations; beyond
\* step 6 it yields the thread and leaves the step alone
BackoffSnooze ==
    /\ driver = "backoff"
    /\ spin = 0
    /\ snoozes < MaxSnooze
    /\ snoozes' = snoozes + 1
    /\ spun' = 0
    /\ IF step <= SpinLimit
         THEN spin' = Pow2(step) /\ UNCHANGED <<step, yields>>
         ELSE yields' = yields + 1 /\ UNCHANGED <<step, spin>>
    /\ last' = BackoffDid("snooze")
    /\ BackoffOnly

\* one iteration of snooze's busy-spin; after the last one the step goes up by one
BackoffSpin ==
    /\ driver = "backoff"
    /\ spin > 0
    /\ spin' = spin - 1
    /\ spun' = spun + 1
    /\ step' = IF spin = 1 THEN step + 1 ELSE step
    /\ last' = BackoffDid("spin")
    /\ UNCHANGED <<snoozes, yields>>
    /\ BackoffOnly

\* reset(): back to step 0
BackoffReset ==
    /\ driver = "backoff"
    /\ spin = 0
    /\ step' = 0
    /\ spun' = 0
    /\ snoozes' = 0
    /\ yields' = 0
    /\ last' = BackoffDid("reset")
    /\ UNCHANGED spin
    /\ BackoffOnly

Constructed ==
    /\ kind \in {"spsc", "mpmc"}
    /\ N \in Capacities
    /\ needs_drop \in BOOLEAN
    /\ head = 0
    /\ tail = 0
    /\ cached_head = 0
    /\ cached_tail = 0
    /\ buffer = [i \in 0..(N - 1) |-> 0]
    /\ sequence = [i \in 0..(N - 1) |-> IF kind = "mpmc" THEN i ELSE 0]
    /\ pc = [t \in Threads |-> "idle"]
    /\ loc = [t \in Threads |-> NoLoc]
    /\ dropped = FALSE
    /\ pushed = <<>>
    /\ popped = <<>>
    /\ absq = <<>>
    /\ last = NoLast
    /\ before = NoSnap
    /\ fate = <<>>
    /\ slotElem = [i \in 0..(N - 1) |-> 0]
    /\ ub = {}
    /\ dropLog = <<>>
    /\ written = {}
    /\ wasFull = [t \in Threads |-> FALSE]
    /\ ArcNew
    /\ BackoffNew

\* the steps of a call once it has begun
SpscStep(t) ==
    \/ SpscPushReload(t)
    \/ SpscPushWrite(t)
    \/ SpscPushPublish(t)
    \/ SpscPopReload(t)
    \/ SpscPopRead(t)
    \/ SpscPopPublish(t)

MpmcStep(t) ==
    \/ MpmcPushLoadSeq(t)
    \/ MpmcPushHead(t)
    \/ MpmcPushWrite(t)
    \/ MpmcPushPublish(t)
    \/ MpmcPushSnooze(t)
    \/ MpmcPopLoadSeq(t)
    \/ MpmcPopTail(t)
    \/ MpmcPopRead(t)
    \/ MpmcPopPublish(t)
    \/ MpmcPopSnooze(t)

\* values one producer pushes: the two MPMC producers MaxPush each, the one SPSC
\* producer as many as the two together
PerProducer == IF kind = "spsc" THEN 2 * MaxPush ELSE MaxPush

\* values a producer of the concurrent tests pushes: p_id * OPS_PER_THREAD + i
SentBy(t) ==
    Cardinality({k \in 1..Len(pushed) :
                    (pushed[k] - 1) \div PerProducer = ProducerIndex(t)})

ProducerValue(t) == ProducerIndex(t) * PerProducer + SentBy(t) + 1

\* the threaded tests: payloads with a destructor; the MPMC tests use N >= 2
Init ==
    /\ driver = "threads"
    /\ Constructed
    /\ needs_drop
    /\ kind = "mpmc" => N >= 2

\* producer threads push their values, retrying a push that failed; consumer
\* threads pop; every atomic step interleaves
Next ==
    \/ \E t \in Producers(kind) :
         /\ SentBy(t) < PerProducer
         /\ (SpscPushStart(t, ProducerValue(t)) \/ MpmcPushStart(t, ProducerValue(t)))
    \/ \E t \in Consumers(kind) : SpscPopStart(t) \/ MpmcPopStart(t)
    \/ \E t \in Threads : SpscStep(t) \/ MpmcStep(t)
    \/ Drop

Spec == Init /\ [][Next]_vars

\* one thread makes every call, each running to its return before the next
SeqNext ==
    \/ \E v \in Values :
         /\ head < MaxPos
         /\ (SpscPushStart(Main, v) \/ MpmcPushStart(Main, v))
    \/ SpscPopStart(Main) \/ MpmcPopStart(Main)
    \/ SpscStep(Main) \/ MpmcStep(Main)
    \/ Drop

SeqInit == driver = "single" /\ Constructed

SpecSeq == SeqInit /\ [][SeqNext]_vars

\* the capacities a program may name as the const generic N
Requested == 0..(Pow2(MaxLogCap) + 1)

\* usize::count_ones
RECURSIVE CountOnes(_)
CountOnes(n) == IF n = 0 THEN 0 ELSE (n % 2) + CountOnes(n \div 2)

\* fault: only N = 0 is refused
ConstAssertNonZero(n) == n # 0

\* the const assertion of new(): N != 0 && N.is_power_of_two()
ConstAssert(n) == n # 0 /\ CountOnes(n) = 1

\* the type AtomicRingBuffer..<T, N> is named, new() has not run: no buffer exists
NewInit ==
    /\ driver = "new"
    /\ kind \in {"spsc", "mpmc"}
    /\ N \in Requested
    /\ needs_drop \in BOOLEAN
    /\ head = 0
    /\ tail = 0
    /\ cached_head = 0
    /\ cached_tail = 0
    /\ buffer = <<>>
    /\ sequence = <<>>
    /\ pc = [t \in Threads |-> "idle"]
    /\ loc = [t \in Threads |-> NoLoc]
    /\ dropped = FALSE
    /\ pushed = <<>>
    /\ popped = <<>>
    /\ absq = <<>>
    /\ last = NoLast
    /\ before = NoSnap
    /\ fate = <<>>
    /\ slotElem = <<>>
    /\ ub = {}
    /\ dropLog = <<>>
    /\ written = {}
    /\ wasFull = [t \in Threads |-> FALSE]
    /\ ArcNew
    /\ BackoffNew

\* new(), spsc lines 21-35 and mpmc lines 25-38: the const assertion fails and no
\* buffer is made, or both indices are 0, the N slots are uninitialised and (MPMC)
\* slot i's sequence is i
New ==
    /\ driver = "new"
    /\ IF ConstAssert(N)
       THEN /\ driver' = "single"
            /\ head' = 0
            /\ tail' = 0
            /\ cached_head' = 0
            /\ cached_tail' = 0
            /\ buffer' = [i \in 0..(N - 1) |-> 0]
            /\ sequence' = [i \in 0..(N - 1) |-> IF kind = "mpmc" THEN i ELSE 0]
            /\ slotElem' = [i \in 0..(N - 1) |-> 0]
       ELSE /\ driver' = "failed"
            /\ UNCHANGED <<bufVars, slotElem>>
    /\ UNCHANGED <<kind, N, needs_drop, pc, loc, dropped, pushed, popped, absq, last,
                   before, fate, ub, dropLog, written, wasFull, arcVars, backoffVars>>

\* construction with any requested N, then the calls of one thread
SpecNew == NewInit /\ [][New \/ SeqNext]_vars

\* one thread makes the calls, another inspects the buffer between its steps
IntroNext ==
    \/ SeqNext
    \/ ReadHead(Observer)
    \/ ReadTail(Observer)
    \/ \E index \in 0..(N - 1) : ExistsLoadTail(Observer, index)
    \/ ExistsLoadHead(Observer)

SpecIntro == SeqInit /\ [][IntroNext]_vars

\* a compare_exchange_weak that finds the expected value succeeds
CasWins(t) ==
    \/ MpmcPushHead(t) /\ pc'[t] = "push_claimed"
    \/ MpmcPopTail(t) /\ pc'[t] = "pop_claimed"

\* a thread inside a call is scheduled again, and a compare_exchange_weak that
\* could succeed again and again does not fail spuriously for ever
Scheduled(t) ==
    /\ WF_vars(SpscStep(t) \/ MpmcStep(t))
    /\ SF_vars(CasWins(t))

SpecSeqFair == SeqInit /\ [][SeqNext]_vars /\ Scheduled(Main)

\* the threaded tests under a fair scheduler
SpecFair == Init /\ [][Next]_vars /\ \A t \in Threads : Scheduled(t)

\* threads clone, follow and drop the handles of one Arc; no buffer call is made
ArcInit ==
    /\ driver = "single"
    /\ kind = "spsc"
    /\ N = 1
    /\ needs_drop = TRUE
    /\ Constructed

ArcNext ==
    \/ \E t, u \in ArcThreads : ArcClone(t, u)
    \/ \E t \in ArcThreads : ArcDeref(t)
    \/ \E t \in ArcThreads : ArcGetMut(t)
    \/ \E t \in ArcThreads : ArcDropDec(t)
    \/ \E t \in ArcThreads : ArcDropFree(t)

SpecArc == ArcInit /\ [][ArcNext]_vars

\* one thread clones its handle again and again, leaking or dropping handles
ArcLeakInit ==
    /\ driver = "leak"
    /\ kind = "spsc"
    /\ N = 1
    /\ needs_drop = TRUE
    /\ Constructed

ArcLeakNext ==
    \/ ArcClone(ArcOwner, ArcOwner)
    \/ ArcLeak(ArcOwner)
    \/ ArcDropDec(ArcOwner)
    \/ ArcDropFree(ArcOwner)
    \/ ArcGetMut(ArcOwner)

SpecArcLeak == ArcLeakInit /\ [][ArcLeakNext]_vars

\* a retry loop's Backoff: snoozed and reset in any order
BackoffInit ==
    /\ driver = "backoff"
    /\ kind = "mpmc"
    /\ N = 1
    /\ needs_drop = FALSE
    /\ Constructed

BackoffNext ==
    \/ BackoffSnooze
    \/ BackoffSpin
    \/ BackoffReset

SpecBackoff == BackoffInit /\ [][BackoffNext]_vars

\* ------------------------------------------ the mutex-protected ring buffers
\* what the fields the locked buffers do not have stay at
LockedFrame ==
    UNCHANGED <<driver, kind, N, needs_drop, cached_head, cached_tail, sequence, dropped,
                before, dropLog, written, wasFull, arcVars, backoffVars>>

\* a locked buffer as new() returns it, head = tail = 0, shared by four threads
LockedNew(k) ==
    /\ driver = "locked"
    /\ kind = k
    /\ N \in Capacities
    /\ needs_drop = TRUE
    /\ head = 0
    /\ tail = 0
    /\ cached_head = 0
    /\ cached_tail = 0
    /\ buffer = [i \in 0..(N - 1) |-> 0]
    /\ sequence = [i \in 0..(N - 1) |-> 0]
    /\ pc = [t \in Threads |-> "idle"]
    /\ loc = [t \in Threads |-> NoLoc]
    /\ dropped = FALSE
    /\ pushed = <<>>
    /\ popped = <<>>
    /\ absq = <<>>
    /\ last = NoLast
    /\ before = NoSnap
    /\ fate = <<>>
    /\ slotElem = [i \in 0..(N - 1) |-> 0]
    /\ ub = {}
    /\ dropLog = <<>>
    /\ written = {}
    /\ wasFull = [t \in Threads |-> FALSE]
    /\ ArcNew
    /\ BackoffNew

\* thread t takes a lock for a call: it goes from idle to position p
TakeLock(t, p, v) ==
    /\ pc[t] = "idle"
    /\ pc' = [pc EXCEPT ![t] = p]
    /\ loc' = [loc EXCEPT ![t] = [NoLoc EXCEPT !.value = v]]
    /\ last' = NoLast
    /\ UNCHANGED <<head, tail, buffer, pushed, popped, absq, fate, slotElem, ub>>
    /\ LockedFrame

\* thread t returns from its call, releasing its lock
Unlock(t) ==
    /\ pc' = [pc EXCEPT ![t] = "idle"]
    /\ loc' = [loc EXCEPT ![t] = NoLoc]

\* mutex_ring_buffer.rs: the one Mutex is held by the thread inside push or read
MxLocked == \E t \in Threads : pc[t] \in {"mx_push", "mx_read"}

\* push, line 38: self.0.lock()
MxPushLock(t, v) ==
    /\ driver = "locked"
    /\ kind = "mutex"
    /\ ~MxLocked
    /\ TakeLock(t, "mx_push", v)

\* fault: the test for full is missing
MxPushNoCheck(t) ==
    LET v == loc[t].value
    IN /\ pc[t] = "mx_push"
       /\ buffer' = [buffer EXCEPT ![Mask(head)] = v]
       /\ head' = WrappingAdd(head, 1)
       /\ GhostWrite(Mask(head))
       /\ pushed' = Append(pushed, v)
       /\ last' = [call |-> "push", val |-> v, res |-> Ok, exp |-> AbsPush(v)]
       /\ absq' = IF Len(absq) < N THEN Append(absq, v) ELSE absq
       /\ Unlock(t)
       /\ UNCHANGED <<tail, popped>>
       /\ LockedFrame

\* push, lines 40-50, under the lock: Err(value) if head - tail = N, else the
\* value is written to slot head & (N - 1) and head goes up by one
MxPush(t) ==
    LET v == loc[t].value
        full == WrappingSub(head, tail) = N
    IN /\ pc[t] = "mx_push"
       /\ IF full
            THEN UNCHANGED <<head, buffer, fate, slotElem, ub, pushed>>
            ELSE /\ buffer' = [buffer EXCEPT ![Mask(head)] = v]
                 /\ head' = WrappingAdd(head, 1)
                 /\ GhostWrite(Mask(head))
                 /\ pushed' = Append(pushed, v)
       /\ last' = [call |-> "push", val |-> v, res |-> IF full THEN Err(v) ELSE Ok,
                   exp |-> AbsPush(v)]
       /\ absq' = IF Len(absq) < N THEN Append(absq, v) ELSE absq
       /\ Unlock(t)
       /\ UNCHANGED <<tail, popped>>
       /\ LockedFrame

\* read, line 53: self.0.lock()
MxReadLock(t) ==
    /\ driver = "locked"
    /\ kind = "mutex"
    /\ ~MxLocked
    /\ TakeLock(t, "mx_read", 0)

\* read, lines 54-67, under the lock: if tail != head the value of slot
\* tail & (N - 1) is read out and tail goes up by one, else None
MxRead(t) ==
    LET value == buffer[Mask(tail)]
    IN /\ pc[t] = "mx_read"
       /\ IF tail # head
            THEN /\ GhostRead(Mask(tail))
                 /\ tail' = WrappingAdd(tail, 1)
                 /\ popped' = Append(popped, value)
            ELSE UNCHANGED <<tail, popped, fate, slotElem, ub>>
       /\ last' = [call |-> "read", val |-> 0,
                   res |-> IF tail # head THEN Some(value) ELSE None, exp |-> AbsPop]
       /\ absq' = IF absq # <<>> THEN Tail(absq) ELSE absq
       /\ Unlock(t)
       /\ UNCHANGED <<head, buffer, pushed>>
       /\ LockedFrame

\* test_multithreaded_concurrency: two producers push their values, retrying a
\* push that failed; two consumers read
MutexInit == LockedNew("mutex")

MutexNext ==
    \/ \E t \in Producers(kind) : SentBy(t) < PerProducer /\ MxPushLock(t, ProducerValue(t))
    \/ \E t \in Producers(kind) : MxPush(t)
    \/ \E t \in Consumers(kind) : MxReadLock(t)
    \/ \E t \in Consumers(kind) : MxRead(t)

SpecMutex == MutexInit /\ [][MutexNext]_vars

\* lib.rs: head and tail each have a Mutex of their own
HeadLocked == \E t \in Threads : pc[t] = "lib_push"

TailLocked == \E t \in Threads : pc[t] \in {"lib_read", "lib_read_body"}

\* values pushed with Ok and not yet returned by a read
Unread == Len(pushed) - Len(popped)

\* push, lines 38-41: self.0.head.lock() (no thread panics, so it is not poisoned)
LibPushLock(t, v) ==
    /\ driver = "locked"
    /\ kind = "lib"
    /\ ~HeadLocked
    /\ TakeLock(t, "lib_push", v)

\* push, lines 43-53, under the head lock: if *head < N the value is written to
\* slot head & (N - 1) and head goes up by one, else a message is printed and the
\* value is dropped; the call returns Ok(()) either way
LibPush(t) ==
    LET v == loc[t].value
    IN /\ pc[t] = "lib_push"
       /\ IF head < N
            THEN /\ buffer' = [buffer EXCEPT ![Mask(head)] = v]
                 /\ head' = WrappingAdd(head, 1)
            ELSE UNCHANGED <<head, buffer>>
       /\ pushed' = Append(pushed, v)
       /\ last' = [call |-> "push", val |-> v, res |-> Ok,
                   exp |-> IF Unread < N THEN Ok ELSE Err(v)]
       /\ Unlock(t)
       /\ UNCHANGED <<tail, popped, absq, fate, slotElem, ub>>
       /\ LockedFrame

\* read, line 57: self.0.tail.lock()
LibReadLock(t) ==
    /\ driver = "locked"
    /\ kind = "lib"
    /\ ~TailLocked
    /\ TakeLock(t, "lib_read", 0)

\* read, lines 59-62: head is copied out under the head lock, which is released
LibReadHead(t) ==
    /\ pc[t] = "lib_read"
    /\ ~HeadLocked
    /\ pc' = [pc EXCEPT ![t] = "lib_read_body"]
    /\ loc' = [loc EXCEPT ![t].head = head]
    /\ last' = NoLast
    /\ UNCHANGED <<head, tail, buffer, pushed, popped, absq, fate, slotElem, ub>>
    /\ LockedFrame

\* read, lines 63-73, under the tail lock: if *tail != head the value of slot
\* tail & (N - 1) is copied out and tail goes up by one, else None
LibRead(t) ==
    LET value == buffer[Mask(tail)]
    IN /\ pc[t] = "lib_read_body"
       /\ IF tail # loc[t].head
            THEN /\ tail' = WrappingAdd(tail, 1)
                 /\ popped' = Append(popped, value)
            ELSE UNCHANGED <<tail, popped>>
       /\ last' = [call |-> "read", val |-> 0,
                   res |-> IF tail # loc[t].head THEN Some(value) ELSE None,
                   exp |-> NoResult]
       /\ Unlock(t)
       /\ UNCHANGED <<head, buffer, pushed, absq, fate, slotElem, ub>>
       /\ LockedFrame

\* the same threads as for the baseline; a producer's push never fails, so it
\* offers each of its values once
LibInit == LockedNew("lib")

LibNext ==
    \/ \E t \in Producers(kind) : SentBy(t) < PerProducer /\ LibPushLock(t, ProducerValue(t))
    \/ \E t \in Producers(kind) : LibPush(t)
    \/ \E t \in Consumers(kind) : LibReadLock(t)
    \/ \E t \in Consumers(kind) : LibReadHead(t)
    \/ \E t \in Consumers(kind) : LibRead(t)

SpecLib == LibInit /\ [][LibNext]_vars

\* ------------------------------------------------------------- properties
\* s is a prefix of u
IsPrefix(s, u) == Len(s) <= Len(u) /\ \A k \in 1..Len(s) : s[k] = u[k]

\* how often v occurs in the sequence s
Count(s, v) == Cardinality({k \in 1..Len(s) : s[k] = v})

\* the elements the buffer holds, oldest first, read from its fields
Held == [k \in 1..(head - tail) |-> buffer[Mask(tail + k - 1)]]

\* C1: SPSC with one producer and one consumer thread in any interleaving: the
\* values returned by pops, in order, are a prefix of the values accepted by pushes.
C1_SpscFifoPrefix == kind = "spsc" => IsPrefix(popped, pushed)

\* every value went through a buffer of two slots, so each slot was reused
C1_Witness ==
    /\ kind = "spsc"
    /\ N = 2
    /\ Len(popped) = 2 * MaxPush
    /\ popped = pushed

\* C2: MPMC, N >= 2, two producers and two consumers in any interleaving: no value
\* is popped more often than its push returned Ok (so none twice, none invented),
\* and once every producer is done, no call is running and the buffer is drained,
\* the popped values are exactly the 2 * MaxPush pushed ones.
C2_MpmcExactlyOnce ==
    (kind = "mpmc" /\ N >= 2) =>
        /\ \A v \in 0..(2 * MaxPush + 1) : Count(popped, v) <= Count(pushed, v)
        /\ \A v \in 1..(2 * MaxPush) : Count(pushed, v) <= 1
        /\ (AllIdle /\ head = tail /\ Len(pushed) = 2 * MaxPush) =>
               (popped = pushed /\ Len(popped) = 2 * MaxPush)

C2_Witness ==
    /\ kind = "mpmc"
    /\ N = 2
    /\ ~dropped
    /\ AllIdle
    /\ head = tail
    /\ popped = [k \in 1..(2 * MaxPush) |-> k]

\* C3: SPSC driven by one thread: every call returns what the abstract bounded FIFO
\* of capacity N returns (Ok iff fewer than N held, else Err(value); the oldest
\* element, or None iff empty), and between calls the buffer holds what it holds.
C3_SpscRefinesFifo ==
    (kind = "spsc" /\ ~dropped) =>
        /\ last.call # "none" => last.res = last.exp
        /\ AllIdle => (head - tail = Len(absq) /\ Held = absq)

\* a third pass over the two slots ends with a pop, a refused push was seen before
C3_Witness ==
    /\ kind = "spsc"
    /\ N = 2
    /\ tail = 2 * N
    /\ last.call = "pop"
    /\ last.res.tag = "Some"
    /\ Len(absq) = 1

\* C4: MPMC with N >= 2 driven by one thread: as C3, the abstract bounded FIFO.
C4_MpmcRefinesFifo ==
    (kind = "mpmc" /\ N >= 2 /\ ~dropped) =>
        /\ last.call # "none" => last.res = last.exp
        /\ AllIdle => (head - tail = Len(absq) /\ Held = absq)

C4_Witness ==
    /\ kind = "mpmc"
    /\ N = 2
    /\ tail = 2 * N
    /\ last.call = "pop"
    /\ last.res.tag = "Some"
    /\ Len(absq) = 1

\* C5: an SPSC push that finds the buffer full returns Err with the offered value
\* and leaves head, tail, the slots and both cached indices as it found them; and
\* a push returns Err only then.
C5_SpscFullPush ==
    (kind = "spsc" /\ last.call = "push") =>
        /\ before.head - before.tail = N =>
               (last.res = Err(last.val) /\ Snapshot = before)
        /\ last.res.tag = "Err" => before.head - before.tail = N

\* the refused push had to re-read tail: the cached tail was stale or the buffer full
C5_Witness ==
    /\ kind = "spsc"
    /\ N = 2
    /\ last.call = "push"
    /\ last.res.tag = "Err"
    /\ tail > 0

\* C6: MPMC, every accepted capacity: after N accepted pushes and no pop a further
\* push returns Err with the offered value and changes no field of the buffer.
C6_MpmcFullPush ==
    (kind = "mpmc" /\ last.call = "push" /\ before.head = N /\ before.tail = 0) =>
        (last.res = Err(last.val) /\ Snapshot = before)

\* C7: a pop begun on an empty buffer (head = tail, no call running) returns None
\* and leaves every field of the buffer as it was, for SPSC and for MPMC.
C7_EmptyPop ==
    (last.call = "pop" /\ before.head = before.tail) =>
        (last.res = None /\ Snapshot = before)

\* both kinds, after elements went through: an empty pop at a head that is no
\* multiple of N
C7_Witness ==
    /\ last.call = "pop"
    /\ last.res = None
    /\ head = N + 1
    /\ N = 2

\* C8: every element written by a push is handed out by exactly one pop or
\* destroyed exactly once by Drop: none is overwritten unread, read twice or
\* dropped after it was read; Drop destroys exactly the positions tail .. head - 1
\* and touches no slot that was never written.
C8_ExactlyOnceCleanup ==
    /\ ub = {}
    /\ \A e \in 1..Len(fate) : fate[e] # "double"
    /\ needs_drop => \A e \in 1..Len(fate) : fate[e] # "lost"
    /\ (dropped /\ needs_drop) =>
          /\ dropLog = [k \in 1..(head - tail) |-> tail + k - 1]
          /\ \A e \in 1..Len(fate) : fate[e] \in {"popped", "dropped"}
          /\ Count(fate, "dropped") = head - tail

\* C9: under every interleaving of clones and drops the box is freed, and the
\* value destroyed, at most once and only by a drop that has brought the count to
\* 0 when no handle is left; no handle is followed, cloned or dropped after the
\* free; and once every handle is dropped the box has been freed exactly once.
C9_ArcFreedOnce ==
    /\ freed <= 1
    /\ arcUb = {}
    /\ allocated <=> freed = 0
    /\ \A t \in ArcThreads : apc[t] = "free" => (ref_count = 0 /\ LiveHandles = 0)
    /\ ~allocated => (LiveHandles = 0 /\ \A t \in ArcThreads : apc[t] = "idle")
    /\ (LiveHandles = 0 /\ \A t \in ArcThreads : apc[t] = "idle") => freed = 1

\* every clone was made and every handle dropped: the last drop freed the box
C9_Witness ==
    /\ freed = 1
    /\ nClones = MaxClones
    /\ nDrops = MaxClones + 1
    /\ ~allocated

\* C10: the count starts at 1 and, until the drop that frees the box has made its
\* decrement, equals the number of live handles, which is at least 1; so after n
\* clones and n drops it is 1 with the value undestroyed, and the box is freed
\* by drop number n + 1.
C10_ArcCountIsHandles ==
    /\ (nClones = 0 /\ nDrops = 0 /\ \A t \in ArcThreads : apc[t] = "idle") => ref_count = 1
    /\ (allocated /\ \A t \in ArcThreads : apc[t] = "idle") =>
           (ref_count = LiveHandles /\ ref_count >= 1)
    /\ (nDrops = nClones /\ \A t \in ArcThreads : apc[t] = "idle") =>
           (ref_count = 1 /\ allocated /\ freed = 0)
    /\ freed = 1 => nDrops = nClones + 1

C10_Witness ==
    /\ nClones = MaxClones
    /\ nDrops = MaxClones
    /\ ref_count = 1
    /\ holds["c2"] = 1

\* C11: no operation blocks: a thread that is inside a push or pop call and keeps
\* being scheduled reaches the call's return (Ok/Err, Some/None), whatever the
\* state of the buffer, for SPSC and for MPMC of every accepted capacity.
C11_NoCallBlocks ==
    \A t \in Threads : (pc[t] # "idle") ~> (pc[t] = "idle")

\* the powers of two a usize can hold
PowersOfTwo == {Pow2(k) : k \in 0..(UsizeBits - 1)}

\* C12: new() fails, and no buffer exists, exactly when N is 0 or no power of two;
\* otherwise the buffer it returns has head = tail = 0 (and both caches 0), N slots
\* none of which is occupied and, for MPMC, sequence i in slot i; N and the number
\* of slots never change afterwards.
C12_Construction ==
    /\ [](/\ driver = "failed" => N \notin PowersOfTwo
          /\ Built => N \in PowersOfTwo
          /\ Built => (DOMAIN buffer = 0..(N - 1) /\ DOMAIN slotElem = 0..(N - 1))
          /\ (Built /\ kind = "mpmc") => DOMAIN sequence = 0..(N - 1)
          /\ ~Built => (buffer = <<>> /\ pc = [t \in Threads |-> "idle"]))
    /\ [][/\ N' = N
          /\ (driver = "new" /\ driver' # "new") =>
                 (driver' = "failed" <=> (N = 0 \/ N \notin PowersOfTwo))
          /\ (driver = "new" /\ Built') =>
                 /\ head' = 0 /\ tail' = 0 /\ cached_head' = 0 /\ cached_tail' = 0
                 /\ \A i \in 0..(N - 1) : slotElem'[i] = 0
                 /\ kind = "mpmc" => \A i \in 0..(N - 1) : sequence'[i] = i]_vars

\* a capacity that is neither 0 nor a power of two was refused
C12_Witness ==
    /\ driver = "failed"
    /\ N = Pow2(MaxLogCap) + 1

\* C13: occupancy bound: in every state reached by one SPSC producer and one SPSC
\* consumer, or by two producers and two consumers of an MPMC buffer with N >= 2,
\* tail <= head and head - tail <= N.
C13_OccupancyBound ==
    (kind = "spsc" \/ N >= 2) => (tail <= head /\ head - tail <= N)

\* the MPMC buffer is full on a later lap while a producer and a consumer are
\* both inside a call
C13_Witness ==
    /\ kind = "mpmc"
    /\ head - tail = N
    /\ tail > 0
    /\ pc["p1"] = "push_head"
    /\ pc["c1"] = "pop_tail"

\* the fate of the element last written to slot i ("none" if it was never written)
SlotFate(i) == IF slotElem[i] = 0 THEN "none" ELSE fate[slotElem[i]]

NoElementHarmed ==
    /\ ub = {}
    /\ \A e \in 1..Len(fate) : fate[e] \notin {"lost", "double"}

\* C14: MPMC, N >= 2, two producers and two consumers: slot i's sequence always is
\* i + k*N or i + k*N + 1; the store that ends a push of position h takes the
\* slot's sequence from h to h + 1, the store that ends a pop of position t takes it
\* from t + 1 to t + N; nothing else changes a sequence, and none ever decreases.
C14_SequenceScheme ==
    /\ []((kind = "mpmc" /\ N >= 2) =>
            \A i \in 0..(N - 1) : sequence[i] % N = i \/ (sequence[i] - 1) % N = i)
    /\ [][(kind = "mpmc" /\ N >= 2) =>
            /\ \A i \in 0..(N - 1) : sequence'[i] >= sequence[i]
            /\ \A t \in Threads : (pc[t] = "push_seqstore" /\ pc'[t] = "idle") =>
                   /\ sequence[Mask(loc[t].head)] = loc[t].head
                   /\ sequence'[Mask(loc[t].head)] = loc[t].head + 1
            /\ \A t \in Threads : (pc[t] = "pop_seqstore" /\ pc'[t] = "idle") =>
                   /\ sequence[Mask(loc[t].tail)] = loc[t].tail + 1
                   /\ sequence'[Mask(loc[t].tail)] = loc[t].tail + N
            /\ \A i \in 0..(N - 1) : sequence'[i] # sequence[i] =>
                   \E t \in Threads :
                       /\ pc'[t] = "idle"
                       /\ \/ pc[t] = "push_seqstore" /\ Mask(loc[t].head) = i
                          \/ pc[t] = "pop_seqstore" /\ Mask(loc[t].tail) = i]_vars

\* on the second lap: slot 0 holds the completed write of position 2, slot 1 is
\* free for position 3
C14_Witness ==
    /\ kind = "mpmc"
    /\ N = 2
    /\ sequence[0] = 3
    /\ sequence[1] = 3

\* a thread between its successful CAS and its store of the slot's sequence
PushOwner(t) == pc[t] \in {"push_claimed", "push_seqstore"}

PopOwner(t) == pc[t] \in {"pop_claimed", "pop_seqstore"}

\* the position it has claimed
Claimed(t) == IF PushOwner(t) THEN loc[t].head ELSE loc[t].tail

\* C15: MPMC, N >= 2, two producers and two consumers: two threads that have won
\* a CAS and not yet stored the sequence own different slots; head and tail move
\* by one, only by the CAS of a thread that expected their current value, so no
\* position is won twice; a pop owns a slot only once the push of its position has
\* stored the sequence (the element is written and unread), a push only once the
\* pop of the position N earlier has (the slot is empty or read); no element is
\* overwritten unread, read twice, or read before it is written.
C15_ExclusiveSlot ==
    /\ []((kind = "mpmc" /\ N >= 2) =>
            /\ \A t, u \in Threads :
                   (t # u /\ (PushOwner(t) \/ PopOwner(t)) /\ (PushOwner(u) \/ PopOwner(u)))
                       => Mask(Claimed(t)) # Mask(Claimed(u))
            /\ \A t \in Threads : PushOwner(t) =>
                   /\ sequence[Mask(loc[t].head)] = loc[t].head
                   /\ loc[t].head < head
                   /\ pc[t] = "push_claimed" =>
                          SlotFate(Mask(loc[t].head)) \in {"none", "popped"}
            /\ \A t \in Threads : PopOwner(t) =>
                   /\ sequence[Mask(loc[t].tail)] = loc[t].tail + 1
                   /\ loc[t].tail < tail
                   /\ pc[t] = "pop_claimed" => SlotFate(Mask(loc[t].tail)) = "held"
            /\ NoElementHarmed)
    /\ [][(kind = "mpmc" /\ N >= 2) =>
            /\ head' \in {head, head + 1}
            /\ tail' \in {tail, tail + 1}
            /\ \A t \in Threads : (pc'[t] = "push_claimed" /\ pc[t] # "push_claimed") =>
                   (loc[t].head = head /\ head' = head + 1)
            /\ \A t \in Threads : (pc'[t] = "pop_claimed" /\ pc[t] # "pop_claimed") =>
                   (loc[t].tail = tail /\ tail' = tail + 1)
            /\ head' # head => \E t \in Threads : pc'[t] = "push_claimed" /\ pc[t] = "push_head"
            /\ tail' # tail => \E t \in Threads : pc'[t] = "pop_claimed" /\ pc[t] = "pop_tail"]_vars

\* a producer and a consumer own the two slots at once, the producer on the
\* second lap
C15_Witness ==
    /\ kind = "mpmc"
    /\ N = 2
    /\ pc["p2"] = "push_claimed"
    /\ pc["c1"] = "pop_claimed"
    /\ loc["p2"].head = 2
    /\ loc["c1"].tail = 1

\* C16: MPMC, N >= 2, two producers and two consumers: the value a pop that claimed
\* position p is about to return is the value written by the push that claimed
\* position p.
C16_PositionOrder ==
    (kind = "mpmc" /\ N >= 2) =>
        \A t \in Threads : pc[t] = "pop_seqstore" =>
            /\ <<loc[t].tail, loc[t].value>> \in written
            /\ \A w \in written : w[1] = loc[t].tail => w[2] = loc[t].value

\* position 0 went to the second producer's first value, position 1 to the first
\* producer's first value, which a pop is about to return
C16_Witness ==
    /\ kind = "mpmc"
    /\ pc["c1"] = "pop_seqstore"
    /\ loc["c1"].tail = 1
    /\ loc["c1"].value = 1
    /\ <<0, MaxPush + 1>> \in written

\* C17: an MPMC pop that has loaded a sequence behind tail + 1 returns None with its
\* next step, without another access to the buffer, a retry or a backoff, whatever
\* head is.
C17_UnpublishedIsEmpty ==
    [][\A t \in Threads :
          (kind = "mpmc" /\ pc[t] = "pop_tail" /\ loc[t].seq < loc[t].tail + 1
             /\ pc'[t] # pc[t]) =>
                /\ pc'[t] = "idle"
                /\ last'.call = "pop"
                /\ last'.res = None
                /\ <<head, tail, buffer, sequence>>' = <<head, tail, buffer, sequence>>]_vars

\* a pop has returned None while head is ahead of tail: a producer has claimed the
\* position at tail and not yet published it
C17_Witness ==
    /\ kind = "mpmc"
    /\ last.call = "pop"
    /\ last.res = None
    /\ head = tail + 1
    /\ tail > 0
    /\ PushOwner("p1")
    /\ loc["p1"].head = tail
    /\ pc["p2"] = "idle"

\* C18: an MPMC push (N >= 2) is about to return Err (it loaded a sequence behind
\* head, and head is still what it loaded) only if head - tail = N held at some
\* moment since the call began.
C18_ErrOnlyWhenFull ==
    (kind = "mpmc" /\ N >= 2) =>
        \A t \in Threads :
            (pc[t] = "push_head" /\ loc[t].seq < loc[t].head /\ head = loc[t].head) =>
                (wasFull[t] \/ head - tail = N)

\* C19: SPSC, one producer and one consumer: cached_tail <= tail <= cached_head <=
\* head <= cached_tail + N; cached_tail changes only in the producer's reload step
\* and cached_head only in the consumer's; no slot is overwritten unread and none
\* is read unwritten.
C19_CachedBounds ==
    /\ [](kind = "spsc" =>
            /\ cached_tail <= tail
            /\ tail <= cached_head
            /\ cached_head <= head
            /\ head <= cached_tail + N
            /\ NoElementHarmed)
    /\ [][kind = "spsc" =>
            /\ cached_tail' # cached_tail =>
                   \E t \in Producers(kind) : pc[t] = "push_reload" /\ pc'[t] # pc[t]
            /\ cached_head' # cached_head =>
                   \E t \in Consumers(kind) : pc[t] = "pop_reload" /\ pc'[t] # pc[t]]_vars

\* both caches are stale at once
C19_Witness ==
    /\ kind = "spsc"
    /\ N = 2
    /\ cached_tail < tail
    /\ cached_head < head
    /\ tail > 1

\* C20: SPSC, one producer and one consumer: head is still the loaded head while
\* push writes the slot, and is stored only after the write; tail is still the
\* loaded tail while pop reads the slot, and is stored only after the read; the slot
\* the consumer reads holds a completed, unread write, the slot the producer writes
\* holds nothing unread, and the two are never the same slot.
C20_PublishOrder ==
    kind = "spsc" =>
        /\ \A t \in Threads : pc[t] = "push_write" =>
               /\ head = loc[t].head
               /\ loc[t].head - tail < N
               /\ SlotFate(Mask(loc[t].head)) \in {"none", "popped"}
        /\ \A t \in Threads : pc[t] = "push_publish" =>
               /\ head = loc[t].head
               /\ buffer[Mask(loc[t].head)] = loc[t].value
               /\ SlotFate(Mask(loc[t].head)) = "held"
        /\ \A t \in Threads : pc[t] = "pop_read" =>
               /\ tail = loc[t].tail
               /\ loc[t].tail < head
               /\ SlotFate(Mask(loc[t].tail)) = "held"
        /\ \A t \in Threads : pc[t] = "pop_publish" =>
               /\ tail = loc[t].tail
               /\ SlotFate(Mask(loc[t].tail)) = "popped"
        /\ \A t, u \in Threads : (pc[t] = "push_write" /\ pc[u] = "pop_read") =>
               Mask(loc[t].head) # Mask(loc[u].tail)
        /\ NoElementHarmed

\* the producer writes one slot while the consumer reads the other, on a later lap
C20_Witness ==
    /\ kind = "spsc"
    /\ N = 2
    /\ pc["p1"] = "push_write"
    /\ pc["c1"] = "pop_read"
    /\ loc["p1"].head = 3
    /\ loc["c1"].tail = 2

\* thread t returns from a call with this step
Returns(t) == pc[t] # "idle" /\ pc'[t] = "idle"

\* C21: counter discipline, SPSC and MPMC, every interleaving: a step changes head
\* or tail by +1 or not at all, never both; head changes only in the publishing
\* store of an SPSC push or the winning CAS of an MPMC push, and the call that
\* made it returns Ok and never touches tail; tail likewise for pop; a call that
\* returns Err or None has changed neither (it returns from a step before any
\* store); a compare-and-swap that fails changes neither.
C21_CounterDiscipline ==
    [][/\ head' \in {head, head + 1}
       /\ tail' \in {tail, tail + 1}
       /\ head' = head \/ tail' = tail
       /\ head' # head => \E t \in Threads :
              \/ kind = "spsc" /\ pc[t] = "push_publish" /\ Returns(t) /\ last'.res = Ok
              \/ kind = "mpmc" /\ pc[t] = "push_head" /\ pc'[t] = "push_claimed"
       /\ tail' # tail => \E t \in Threads :
              \/ kind = "spsc" /\ pc[t] = "pop_publish" /\ Returns(t)
                    /\ last'.res.tag = "Some"
              \/ kind = "mpmc" /\ pc[t] = "pop_tail" /\ pc'[t] = "pop_claimed"
       /\ \A t \in Threads :
              /\ (Returns(t) /\ last'.res = Ok) =>
                     \/ kind = "spsc" /\ head' = head + 1
                     \/ kind = "mpmc" /\ pc[t] = "push_seqstore"
              /\ (Returns(t) /\ last'.res.tag = "Some") =>
                     \/ kind = "spsc" /\ tail' = tail + 1
                     \/ kind = "mpmc" /\ pc[t] = "pop_seqstore"
              /\ (pc'[t] = "push_claimed" /\ pc[t] # "push_claimed") =>
                     (pc[t] = "push_head" /\ head' = head + 1)
              /\ (pc'[t] = "push_seqstore" /\ pc[t] # "push_seqstore") =>
                     pc[t] = "push_claimed"
              /\ (pc'[t] = "pop_claimed" /\ pc[t] # "pop_claimed") =>
                     (pc[t] = "pop_tail" /\ tail' = tail + 1)
              /\ (pc'[t] = "pop_seqstore" /\ pc[t] # "pop_seqstore") =>
                     pc[t] = "pop_claimed"
              /\ (Returns(t) /\ last'.res.tag \in {"Err", "None"}) =>
                     /\ head' = head /\ tail' = tail
                     /\ pc[t] \in {"push_reload", "push_head", "pop_reload", "pop_tail"}
              /\ (pc[t] \in {"push_head", "pop_tail"}
                    /\ pc'[t] \in {"push_snooze", "pop_snooze"}) =>
                     (head' = head /\ tail' = tail)]_vars

\* a producer whose compare-and-swap failed is backing off while the other owns
\* the position it wanted
C21_Witness ==
    /\ kind = "mpmc"
    /\ pc["p1"] = "push_snooze"
    /\ pc["p2"] = "push_claimed"
    /\ loc["p2"].head = 2
    /\ head = 3
    /\ tail = 1

\* C22: read_head, read_tail and exists, called by another thread between any two
\* steps of a push or pop, change no field of the buffer; read_head returns
\* head mod N and read_tail returns tail mod N, both in 0..N-1.
C22_IntrospectionReadOnly ==
    /\ [](/\ last.call = "read_head" =>
                (last.res = Usize(head % N) /\ last.res.val \in 0..(N - 1))
          /\ last.call = "read_tail" =>
                (last.res = Usize(tail % N) /\ last.res.val \in 0..(N - 1)))
    /\ [][(last'.call \in {"read_head", "read_tail", "exists"}
             \/ pc'[Observer] # pc[Observer]) =>
                <<bufVars, dropped, fate, slotElem>>' = <<bufVars, dropped, fate, slotElem>>]_vars

\* read_head answered on the second lap while a pop owned a slot
C22_Witness ==
    /\ last.call = "read_head"
    /\ N = 2
    /\ head = 3
    /\ last.res.val = 1
    /\ pc[Main] = "pop_claimed"

\* slot i holds an unread element: i = p mod N for a position p in tail .. head - 1
Occupied(i) == \E p \in tail..(head - 1) : p % N = i

\* C23: with no push or pop in progress, exists(i) answers true exactly when slot i
\* holds an unread element, for SPSC and MPMC, and the two give the same answer
\* for the same head, tail and i.
C23_ExistsOccupied ==
    (pc[Main] = "idle" /\ ~dropped /\ Built) =>
        /\ (pc[Observer] = "exists_head" /\ loc[Observer].tail = tail) =>
               (ExistsAnswer(Observer) <=> Occupied(loc[Observer].value))
        /\ \A i \in 0..(N - 1) : SpscExists(head, tail, i) <=> MpmcExists(head, tail, i)

\* thread t starts another iteration of the loop of push or pop with this step
LoopsAgain(t) ==
    /\ pc'[t] \in {"push_loadseq", "pop_loadseq"}
    /\ pc[t] \notin {"idle", "push_loadseq", "pop_loadseq"}

\* push has loaded a sequence behind head, and head has moved since
StaleHead(t) ==
    pc[t] = "push_head" /\ loc[t].seq < loc[t].head /\ head # loc[t].head

\* C24 as claimed: in MPMC push and pop every path that starts another iteration
\* has called snooze since the last one.
C24_EveryRetrySnoozes ==
    [][\A t \in Threads : LoopsAgain(t) => pc[t] \in {"push_snooze", "pop_snooze"}]_vars

\* C24 amended: a failed compare-and-swap and a sequence ahead lead to snooze, in
\* push and in pop, and every new iteration of pop follows a snooze; in push the
\* path "sequence behind, head has moved" resets the backoff and starts the next
\* iteration without a snooze, and it is the only one that does.
C24_RetrySnoozesUnlessStale ==
    [][\A t \in Threads :
          /\ LoopsAgain(t) => (pc[t] \in {"push_snooze", "pop_snooze"} \/ StaleHead(t))
          /\ (StaleHead(t) /\ pc'[t] # pc[t]) => pc'[t] = "push_loadseq"
          /\ (pc[t] = "push_head" /\ loc[t].seq >= loc[t].head /\ pc'[t] # pc[t]) =>
                 pc'[t] \in {"push_claimed", "push_snooze"}
          /\ (pc[t] = "pop_tail" /\ pc'[t] # pc[t]) =>
                 pc'[t] \in {"pop_claimed", "pop_snooze", "idle"}]_vars

\* a push that found its slot behind sees that head has moved: a consumer freed
\* the slot and the other producer took the position
C24_Witness ==
    /\ kind = "mpmc"
    /\ StaleHead("p1")
    /\ loc["p1"].head = 2
    /\ head = 3

\* C25: get_mut gives mutable access exactly when the count it loads is 1 and
\* nothing when it is 2 or more; the step changes neither the count nor any
\* thread's handles nor the box.
C25_GetMut ==
    [][last'.call = "get_mut" =>
          /\ last'.val = ref_count
          /\ last'.res.tag = "Some" <=> ref_count = 1
          /\ ref_count >= 2 => last'.res = None
          /\ last'.res.tag = "Some" => LiveHandles = 1
          /\ <<ref_count, holds, allocated, freed>>' = <<ref_count, holds, allocated, freed>>]_vars

\* every clone was made and dropped again; the one handle left has exclusive access
C25_Witness ==
    /\ last.call = "get_mut"
    /\ last.res.tag = "Some"
    /\ nClones = MaxClones
    /\ nDrops = MaxClones
    /\ holds["c1"] = 1

\* C26: with the count UsizeBits wide and handles leaked at will: the clone that
\* finds a count above usize::MAX / 2 aborts the process, and no other step does;
\* the count goes up by one at a time and reaches 0 only by the drop that finds 1,
\* so it never wraps; while a handle is live the box is allocated and never freed.
C26_CloneOverflowGuard ==
    /\ [](/\ ref_count <= UsizeMax \div 2 + 2
          /\ LiveHandles >= 1 => (allocated /\ freed = 0 /\ ref_count >= LiveHandles)
          /\ arcUb = {}
          /\ aborted <=> ref_count = UsizeMax \div 2 + 2)
    /\ [][/\ ref_count' = 0 => ref_count \in {0, 1}
          /\ ref_count' > ref_count => ref_count' = ref_count + 1
          /\ (aborted' /\ ~aborted) => ref_count > UsizeMax \div 2
          /\ (ref_count' > ref_count /\ ref_count > UsizeMax \div 2) => aborted']_vars

\* the process aborted in a clone while holding a live handle, all others leaked
C26_Witness ==
    /\ aborted
    /\ LiveHandles = 1
    /\ nDrops = 0
    /\ allocated

\* C27: the Backoff's step starts at 0 and stays in 0..7; a snooze at step <= 6
\* spins 2^step iterations and then adds 1 to the step; a snooze at step > 6
\* yields the thread, spins nothing and keeps the step; so between snoozes the
\* step is the number of snoozes since the last reset, capped at 7, the snoozes
\* beyond the seventh are the ones that yield, and reset puts the step at 0.
C27_Backoff ==
    /\ [](/\ step \in 0..7
          /\ spin = 0 => /\ step = (IF snoozes < 7 THEN snoozes ELSE 7)
                         /\ yields = snoozes - step)
    /\ [][/\ (last'.call = "snooze" /\ step <= 6) =>
                 (spin' = Pow2(step) /\ spun' = 0 /\ yields' = yields /\ step' = step)
          /\ (last'.call = "snooze" /\ step > 6) =>
                 (spin' = 0 /\ yields' = yields + 1 /\ step' = step)
          /\ (spin > 0 /\ spin' = 0) => (spun' = Pow2(step) /\ step' = step + 1)
          /\ (spin > 0 /\ spin' > 0) => step' = step
          /\ last'.call = "reset" => step' = 0]_vars

\* the eighth snooze since the Backoff was new, the first one to yield
C27_Witness ==
    /\ driver = "backoff"
    /\ last.call = "snooze"
    /\ snoozes = 8
    /\ step = 7
    /\ yields = 1

\* C28: the mutex baseline, two producers and two consumers in any interleaving,
\* is an atomic bounded FIFO of capacity N: every push and read answers what the
\* abstract queue given the same calls in lock order answers (Err(v) iff N are
\* held, None iff empty, else the oldest), the fields hold that queue, and the
\* values read are, in order, the first of the values accepted: each one once.
C28_MutexIsBoundedFifo ==
    /\ last.call \in {"push", "read"} => last.res = last.exp
    /\ Held = absq
    /\ Len(absq) <= N
    /\ pushed = popped \o absq
    /\ NoElementHarmed

\* a full buffer of two slots, one of them reused, refused a push
C28_Witness ==
    /\ kind = "mutex"
    /\ N = 2
    /\ last.call = "push"
    /\ last.res.tag = "Err"
    /\ head = 3
    /\ tail = 1

\* C29: lib.rs buffer: a push made when N values are unread returns Err with the
\* value, any other push returns Ok; a push that returns Ok has written its value
\* to the slot at head and advanced head; reads return the accepted values in
\* order, and once the buffer is empty with no call running every accepted value
\* has been read.
C29_LibPushHonest ==
    /\ [](/\ last.call = "push" => last.res = last.exp
          /\ IsPrefix(popped, pushed)
          /\ (AllIdle /\ head = tail) => popped = pushed)
    /\ [][(last'.call = "push" /\ last'.res = Ok) =>
              (head' = head + 1 /\ buffer'[Mask(head)] = last'.val)]_vars

====
